---- MODULE Spec2Model ----
(***************************************************************************)
(* Model of GyBmeP280ToZabbix.ino: the timer loop() and zabbix_sender(),   *)
(* which builds a Zabbix trapper message from four sensor readings, frames *)
(* it (ZBXD\1, 8 length bytes, JSON text) and waits for the server's       *)
(* answer with a bounded busy-wait.                                        *)
(*                                                                         *)
(* Modelling decisions:                                                    *)
(*  - `int` is 32 bits wide (the only builds on which the test             *)
(*    payloadLenght >= 65536 of line 170 can be true, and on which Strings *)
(*    of that size fit in memory); every length of this model is far below *)
(*    2^31, so the unsigned -> int conversion of line 145 changes nothing. *)
(*  - `unsigned long` is 32 bits wide.  A value is kept as two 16-bit      *)
(*    limbs <<hi, lo>>, because 2^32 is not a TLC integer.                 *)
(*  - Text is modelled by its length and by the name of the part it        *)
(*    belongs to; the bytes of the length field and of the server's        *)
(*    answer are modelled as numbers 0..255.                               *)
(*  - A client.print / client.write on a connected client writes all of    *)
(*    its argument (the code never looks at the return values).            *)
(***************************************************************************)
EXTENDS Integers, Sequences, FiniteSets, TLC

(***************************************************************************)
(* Bounds of the model.                                                    *)
(***************************************************************************)
\* calls of zabbix_sender() in one behaviour
MaxCalls == 2
\* bytes that strlen() may find after the unterminated txtHeader[5]
MaxGarbage == 1

(***************************************************************************)
(* Program constants.                                                      *)
(***************************************************************************)
interval == 60000
ResponseTimeout == 10000
CR == 13
\* char txtHeader[5] = {'Z','B','X','D',1}
txtHeader == <<90, 66, 88, 68, 1>>

\* milliseconds by which the clock advances between two reads of millis()
Steps == {ResponseTimeout, interval}

(***************************************************************************)
(* unsigned long arithmetic (32 bits, two 16-bit limbs <<hi, lo>>).        *)
(***************************************************************************)
Limb == 256 * 256

U32Zero == <<0, 0>>

\* a + d modulo 2^32, for 0 <= d < 2^31
U32Add(a, d) ==
    LET lo == a[2] + (d % Limb)
        hi == a[1] + (d \div Limb) + (lo \div Limb)
    IN  <<hi % Limb, lo % Limb>>

\* a - b modulo 2^32 (unsigned subtraction)
U32Sub(a, b) ==
    LET borrow == IF a[2] < b[2] THEN 1 ELSE 0
    IN  <<(a[1] - b[1] - borrow) % Limb, (a[2] - b[2]) % Limb>>

\* a > n, for 0 <= n < 2^31
U32Gt(a, n) ==
    \/ a[1] > n \div Limb
    \/ a[1] = n \div Limb /\ a[2] > n % Limb

(***************************************************************************)
(* Configuration ("Zabbix Config", "Zabbix items", lines 33-41): the host  *)
(* name and the four item names, by their lengths.  SourceConfig is the    *)
(* configuration of the repository; the others are configurations a user   *)
(* may set, chosen so that the payload length falls below 256, on both     *)
(* sides of 256 and on both sides of 65536.                                *)
(***************************************************************************)
SourceConfig ==
    [host |-> 7,
     key |-> [Temperature |-> 21, Humidity |-> 18, Pressure |-> 18, Altitude |-> 18]]

Configs ==
    { SourceConfig,
      [host |-> 1,
       key |-> [Temperature |-> 1, Humidity |-> 1, Pressure |-> 1, Altitude |-> 1]],
      [host |-> 10,
       key |-> [Temperature |-> 16, Humidity |-> 1, Pressure |-> 1, Altitude |-> 1]],
      [host |-> 16316,
       key |-> [Temperature |-> 21, Humidity |-> 18, Pressure |-> 18, Altitude |-> 18]] }

(***************************************************************************)
(* Sensor readings, in hundredths (String(double) prints two decimals).    *)
(***************************************************************************)
Batches ==
    { [Temperature |-> 2350, Humidity |-> 4512, Pressure |-> 101325, Altitude |-> -1234],
      [Temperature |-> -9900, Humidity |-> 10000, Pressure |-> 95000, Altitude |-> 12345] }

\* double Gybmep280Temperature = -99; ... (lines 58-61)
InitialReadings ==
    [Temperature |-> -9900, Humidity |-> -9900, Pressure |-> -9900, Altitude |-> -9900]

\* the order in which zabbix_sender() reads the sensor (lines 114-117)
CaptureOrder == <<"Temperature", "Humidity", "Pressure", "Altitude">>

\* the reading that each of zabbixMessagePayloadPart1..4 carries (lines 130-133)
PartItem == <<"Humidity", "Pressure", "Altitude", "Temperature">>

RECURSIVE NumDigits(_)
NumDigits(n) == IF n < 10 THEN 1 ELSE 1 + NumDigits(n \div 10)

\* length of String(double): sign, integer digits, '.', two decimals
StringOfDoubleLen(c) ==
    LET a == IF c < 0 THEN -c ELSE c
    IN  (IF c < 0 THEN 1 ELSE 0) + NumDigits(a \div 100) + 3

\* "{ \"request\":\"sender data\", \"data\":[ "
HeaderLen == 36
\* "] }"
FooterLen == 3

\* the literal text of part i: {"host":"  ","key":"  ","value":"  "}<space>,
\* preceded by ", " in parts 2 to 4
PartLiteralLen(i) == (IF i = 1 THEN 9 ELSE 11) + 9 + 11 + 3

PartLen(cfg, r, i) ==
    PartLiteralLen(i) + cfg.host + cfg.key[PartItem[i]] + StringOfDoubleLen(r[PartItem[i]])

\* the six Strings of lines 129-134, in the order of their declaration
BuildMessage(cfg, r) ==
    <<[name |-> "Header", item |-> "none", len |-> HeaderLen]>>
    \o [i \in 1..4 |-> [name |-> "Part", item |-> PartItem[i], len |-> PartLen(cfg, r, i)]]
    \o <<[name |-> "Footer", item |-> "none", len |-> FooterLen]>>

RECURSIVE SumLen(_)
SumLen(s) == IF s = <<>> THEN 0 ELSE Head(s).len + SumLen(Tail(s))

\* int payloadLenght = Header.length() + Part1.length() + ... (lines 145-150)
PayloadLength(m) ==
    m[1].len + m[2].len + m[3].len + m[4].len + m[5].len + m[6].len

(***************************************************************************)
(* The server's answers: byte sequences the peer may send after accepting. *)
(* nothing at all, "OK\r", a bare "\r", or "O\rK": a terminated segment    *)
(* followed by one that is not.                                            *)
(***************************************************************************)
PeerScripts ==
    { <<>>, <<79, 75, CR>>, <<CR>>, <<79, CR, 75>> }

(***************************************************************************)
(* Stream::readStringUntil(terminator) as called at line 233: characters   *)
(* are taken from the stream one by one until the terminator is read (and  *)
(* dropped) or no character is left when the read times out.               *)
(***************************************************************************)
\* as ReadStringUntil, with the terminator kept in the text
RECURSIVE ReadStringUntil_KeepsTerminator(_, _, _)
ReadStringUntil_KeepsTerminator(stream, terminator, acc) ==
    IF stream = <<>> THEN [text |-> acc, rest |-> <<>>]
    ELSE IF Head(stream) = terminator
         THEN [text |-> Append(acc, Head(stream)), rest |-> Tail(stream)]
    ELSE ReadStringUntil_KeepsTerminator(Tail(stream), terminator, Append(acc, Head(stream)))

RECURSIVE ReadStringUntil(_, _, _)
ReadStringUntil(stream, terminator, acc) ==
    IF stream = <<>> THEN [text |-> acc, rest |-> <<>>]
    ELSE IF Head(stream) = terminator THEN [text |-> acc, rest |-> Tail(stream)]
    ELSE ReadStringUntil(Tail(stream), terminator, Append(acc, Head(stream)))

(***************************************************************************)
(* Length encoding of lines 168-185 and 188-195.                           *)
(***************************************************************************)
\* payloadLenght >= 65536 (line 170)
TooLong(len) == len >= 256 /\ len >= 65536

\* firstLengthByte (lines 178, 184)
FirstLengthByte(len) == IF len >= 256 THEN len % 256 ELSE len

\* as SecondLengthByte, with the remainder taken in place of the quotient
SecondLengthByte_Remainder(len) == IF len >= 256 THEN len % 256 ELSE 0

\* secondLengthByte (lines 177, 183)
SecondLengthByte(len) == IF len >= 256 THEN len \div 256 ELSE 0

\* (byte)x
ToByte(x) == x % 256

\* the eight client.write calls of lines 188-195
LengthField(first, second) ==
    <<ToByte(first), ToByte(second), ToByte(0), ToByte(0),
      ToByte(0), ToByte(0), ToByte(0), ToByte(0)>>

(***************************************************************************)
(* State.                                                                  *)
(***************************************************************************)
VARIABLES
    cfg,               \* the configured host and item names (lines 33-41)
    now,               \* the value millis() returns
    pc,                \* the statement the program is at
    previousMillis,    \* globals of lines 51-56
    currentMillis,
    timeout,
    firstLengthByte,
    secondLengthByte,
    Gybmep280,         \* the four globals of lines 58-61
    msg,               \* locals of zabbix_sender: the six Strings of lines 129-134
    payloadLenght,     \* local of zabbix_sender (line 145)
    sock,              \* EthernetClient client: "closed" or "open"
    rx,                \* bytes received on the connection and not yet read
    peerPending,       \* bytes the peer will still send on this connection
    calls,             \* calls of zabbix_sender so far
    ops,               \* history: socket operations of the current call
    wire,              \* history: what the current call wrote, as runs of bytes
    lengthField,       \* history: the bytes written by lines 188-195
    responses,         \* history: the Strings read at line 233 in the current call
    outcome,           \* history: the exit the current call takes
    waited,            \* history: milliseconds since line 217 ran, -1 before
    arrived,           \* history: `waited` when the first byte arrived, -1 if none
    seen,              \* history: line 219 found a byte available
    received,          \* history: the bytes the first read of line 233 was given
    elapsed,           \* history: milliseconds since line 106 last ran, or since the start
    earlierViews,      \* history: what loop() could see when the call before returned
    earlierAck         \* history: the call before returned as Acknowledged

env == <<cfg, now, peerPending>>
globals == <<previousMillis, currentMillis, timeout, firstLengthByte, secondLengthByte, Gybmep280>>
locals == <<msg, payloadLenght>>
client == <<sock, rx>>
history == <<ops, wire, lengthField, responses, outcome, waited, arrived, seen, received>>
earlier == <<earlierViews, earlierAck>>
vars == <<env, globals, locals, client, history, pc, calls, elapsed, earlier>>

NoMessage == <<>>

Outcomes == {"Acknowledged", "TimedOut", "ConnectionFailed", "OversizedPayload"}

Init ==
    /\ cfg \in Configs
    /\ now = U32Zero
    /\ pc = "loop"
    /\ previousMillis = U32Zero
    /\ currentMillis = U32Zero
    /\ timeout = U32Zero
    /\ firstLengthByte = 0
    /\ secondLengthByte = 0
    /\ Gybmep280 = InitialReadings
    /\ msg = NoMessage
    /\ payloadLenght = 0
    /\ sock = "closed"
    /\ rx = <<>>
    /\ peerPending = <<>>
    /\ calls = 0
    /\ ops = <<>>
    /\ wire = <<>>
    /\ lengthField = <<>>
    /\ responses = <<>>
    /\ outcome = "none"
    /\ waited = -1
    /\ arrived = -1
    /\ seen = FALSE
    /\ received = <<>>
    /\ elapsed = 0
    /\ earlierViews = {}
    /\ earlierAck = FALSE

(***************************************************************************)
(* Environment: the clock and the peer.                                    *)
(***************************************************************************)
\* The clock advances between two reads of millis(): before line 97 while
\* the interval has not elapsed, and in the response wait before line 219
\* and before line 221 until the response timeout has elapsed.
Tick ==
    /\ \/ pc = "loop" /\ calls < MaxCalls
          /\ ~U32Gt(U32Sub(now, previousMillis), interval)
       \/ pc \in {"wait_avail", "wait_time"} /\ waited <= ResponseTimeout
    /\ \E d \in Steps :
        /\ now' = U32Add(now, d)
        /\ waited' = IF pc = "loop" THEN waited ELSE waited + d
        /\ elapsed' = elapsed + d
    /\ UNCHANGED earlier
    /\ UNCHANGED <<cfg, peerPending, globals, locals, client, pc, calls,
                   ops, wire, lengthField, responses, outcome, arrived, seen, received>>

\* Bytes of the peer's answer arrive on the open connection.  The program
\* first looks at what it received at line 219, so an earlier arrival is
\* an arrival just before the wait begins.
PeerSend ==
    /\ UNCHANGED <<elapsed, earlier>>
    /\ sock = "open"
    /\ peerPending # <<>>
    /\ pc \in {"start_wait", "wait_avail", "wait_time", "read_avail"}
    /\ \E n \in 1..Len(peerPending) :
        /\ rx' = rx \o SubSeq(peerPending, 1, n)
        /\ peerPending' = SubSeq(peerPending, n + 1, Len(peerPending))
    /\ arrived' = IF arrived >= 0 THEN arrived ELSE IF waited >= 0 THEN waited ELSE 0
    /\ UNCHANGED <<cfg, now, globals, locals, sock, pc, calls,
                   ops, wire, lengthField, responses, outcome, waited, seen, received>>

(***************************************************************************)
(* loop(), lines 95-109.                                                   *)
(***************************************************************************)
\* as IntervalElapsed, with the time of the next call computed and compared
\* with the clock: currentMillis > previousMillis + interval
IntervalElapsed_Absolute(current, previous) ==
    LET due == U32Add(previous, interval)
    IN  current[1] > due[1] \/ (current[1] = due[1] /\ current[2] > due[2])

\* (currentMillis - previousMillis) > interval
IntervalElapsed(current, previous) == U32Gt(U32Sub(current, previous), interval)

loop ==
    /\ pc = "loop"
    /\ currentMillis' = now
    /\ IF IntervalElapsed(now, previousMillis)
       THEN /\ calls < MaxCalls
            /\ previousMillis' = now
            /\ calls' = calls + 1
            /\ pc' = "build"
            /\ elapsed' = 0
       ELSE /\ UNCHANGED <<previousMillis, calls, pc, elapsed>>
    /\ UNCHANGED earlier
    /\ UNCHANGED <<env, timeout, firstLengthByte, secondLengthByte, Gybmep280,
                   locals, client, history>>

\* what loop() has of a call when zabbix_sender() returns: the function is
\* void (line 64) and has no parameter, so that is the globals it assigned,
\* the client, and the clock against the global `timeout`
CallerView ==
    [firstLengthByte |-> firstLengthByte, secondLengthByte |-> secondLengthByte,
     Gybmep280 |-> Gybmep280, connected |-> sock, available |-> rx,
     sinceTimeout |-> U32Sub(now, timeout)]

\* lines 107-109: zabbix_sender() has returned and loop() returns; the
\* history of the call ends here
LoopReturn ==
    /\ pc = "returned"
    /\ UNCHANGED <<elapsed, earlier>>
    /\ pc' = "loop"
    /\ ops' = <<>>
    /\ wire' = <<>>
    /\ lengthField' = <<>>
    /\ responses' = <<>>
    /\ outcome' = "none"
    /\ waited' = -1
    /\ arrived' = -1
    /\ seen' = FALSE
    /\ received' = <<>>
    /\ UNCHANGED <<env, globals, locals, client, calls>>

(***************************************************************************)
(* zabbix_sender(), lines 111-244.                                         *)
(***************************************************************************)
\* lines 113-153: read the sensor, build the six Strings, add their lengths
ReadAndBuild ==
    /\ UNCHANGED <<elapsed, earlier>>
    /\ pc = "build"
    /\ \E r \in Batches :
        /\ Gybmep280' = r
        /\ msg' = BuildMessage(cfg, r)
        /\ payloadLenght' = PayloadLength(BuildMessage(cfg, r))
    /\ pc' = "connect"
    /\ UNCHANGED <<env, previousMillis, currentMillis, timeout, firstLengthByte,
                   secondLengthByte, client, calls, history>>

\* line 156: client.connect(server, port) == 1.  A connection the client
\* still holds is given up; the peer that accepts chooses its answer.
\* as ConnectBranch, with the result of connect ignored
ConnectBranch_Unchecked(ok) == "header"

\* if (client.connect(server, port) == 1) ... else ...
ConnectBranch(ok) == IF ok THEN "header" ELSE "else"

Connect ==
    /\ UNCHANGED <<elapsed, earlier>>
    /\ pc = "connect"
    /\ rx' = <<>>
    /\ \E ok \in BOOLEAN :
        /\ ops' = Append(ops, IF ok THEN "connect" ELSE "connect failed")
        /\ sock' = IF ok THEN "open" ELSE "closed"
        /\ IF ok THEN peerPending' \in PeerScripts ELSE peerPending' = <<>>
        /\ pc' = ConnectBranch(ok)
    /\ UNCHANGED <<cfg, now, globals, locals, calls,
                   wire, lengthField, responses, outcome, waited, arrived, seen, received>>

\* lines 239-242: Serial.println(F("NO Connection to zabbix"))
NoConnection ==
    /\ UNCHANGED <<elapsed, earlier>>
    /\ pc = "else"
    /\ outcome' = "ConnectionFailed"
    /\ pc' = "stop"
    /\ UNCHANGED <<env, globals, locals, client, calls,
                   ops, wire, lengthField, responses, waited, arrived, seen, received>>

\* what client.print(txtHeader) writes: txtHeader has no terminating 0, so
\* print's strlen() runs on into the bytes that follow the array and the
\* write carries `garbage` more bytes
PrintTxtHeader(garbage) ==
    <<[name |-> "txtHeader", item |-> "none", len |-> Len(txtHeader)]>>
    \o (IF garbage > 0
        THEN <<[name |-> "garbage", item |-> "none", len |-> garbage]>>
        ELSE <<>>)

\* lines 160-166
SendHeader ==
    /\ UNCHANGED <<elapsed, earlier>>
    /\ pc = "header"
    /\ firstLengthByte' = 0
    /\ secondLengthByte' = 0
    /\ \E garbage \in 0..MaxGarbage : wire' = wire \o PrintTxtHeader(garbage)
    /\ ops' = Append(ops, "print txtHeader")
    /\ pc' = "encode"
    /\ UNCHANGED <<env, previousMillis, currentMillis, timeout, Gybmep280, locals,
                   client, calls, lengthField, responses, outcome, waited, arrived, seen, received>>

\* lines 168-185
EncodeLength ==
    /\ UNCHANGED <<elapsed, earlier>>
    /\ pc = "encode"
    /\ IF TooLong(payloadLenght)
       THEN /\ outcome' = "OversizedPayload"
            /\ pc' = "returned"
            /\ UNCHANGED <<firstLengthByte, secondLengthByte>>
       ELSE /\ secondLengthByte' = SecondLengthByte(payloadLenght)
            /\ firstLengthByte' = FirstLengthByte(payloadLenght)
            /\ pc' = "length"
            /\ UNCHANGED outcome
    /\ UNCHANGED <<env, previousMillis, currentMillis, timeout, Gybmep280, locals,
                   client, calls, ops, wire, lengthField, responses, waited, arrived, seen, received>>

\* lines 187-195
SendLength ==
    /\ UNCHANGED <<elapsed, earlier>>
    /\ pc = "length"
    /\ lengthField' = LengthField(firstLengthByte, secondLengthByte)
    /\ wire' = Append(wire, [name |-> "length", item |-> "none",
                             len |-> Len(LengthField(firstLengthByte, secondLengthByte))])
    /\ ops' = Append(ops, "write length")
    /\ pc' = "print1"
    /\ UNCHANGED <<env, globals, locals, client, calls, responses, outcome, waited,
                   arrived, seen, received>>

PrintPc == <<"print1", "print2", "print3", "print4", "print5", "print6", "start_wait">>

\* as PrintedPart, with Part3 printed a second time in place of Part4
PrintedPart_Part3Twice(m, i) == IF i = 5 THEN m[4] ELSE m[i]

\* the String that the i-th client.print of lines 199-204 is given
PrintedPart(m, i) == m[i]

\* lines 199-204: the i-th client.print of the payload
PrintPart(i) ==
    /\ UNCHANGED <<elapsed, earlier>>
    /\ pc = PrintPc[i]
    /\ wire' = Append(wire, PrintedPart(msg, i))
    /\ ops' = Append(ops, "print payload")
    /\ pc' = PrintPc[i + 1]
    /\ UNCHANGED <<env, globals, locals, client, calls, lengthField, responses,
                   outcome, waited, arrived, seen, received>>

SendPayload == \E i \in 1..6 : PrintPart(i)

\* line 217: timeout = millis()
StartWait ==
    /\ UNCHANGED <<elapsed, earlier>>
    /\ pc = "start_wait"
    /\ timeout' = now
    /\ waited' = 0
    /\ pc' = "wait_avail"
    /\ UNCHANGED <<env, previousMillis, currentMillis, firstLengthByte, secondLengthByte,
                   Gybmep280, locals, client, calls, ops, wire, lengthField, responses,
                   outcome, arrived, seen, received>>

\* as NothingAvailable, with the comparison inverted
NothingAvailable_Inverted(buf) == Len(buf) # 0

\* client.available() == 0, the condition of the while of line 219
NothingAvailable(buf) == Len(buf) = 0

\* line 219: while (client.available() == 0)
WaitAvailable ==
    /\ UNCHANGED <<elapsed, earlier>>
    /\ pc = "wait_avail"
    /\ pc' = IF NothingAvailable(rx) THEN "wait_time" ELSE "read_avail"
    /\ seen' = (Len(rx) # 0)
    /\ UNCHANGED <<env, globals, locals, client, calls,
                   ops, wire, lengthField, responses, outcome, waited, arrived, received>>

\* as TimedOut, with the end of the wait computed and compared with the
\* clock: millis() > timeout + ResponseTimeout
TimedOut_Absolute(current, start) ==
    LET due == U32Add(start, ResponseTimeout)
    IN  current[1] > due[1] \/ (current[1] = due[1] /\ current[2] > due[2])

\* as TimedOut, with the start of the wait read again at each test
TimedOut_Restarted(current, start) == U32Gt(U32Sub(current, current), ResponseTimeout)

\* as TimedOut, with >= in place of >
TimedOut_AtTimeout(current, start) == U32Gt(U32Sub(current, start), ResponseTimeout - 1)

\* millis() - timeout > ResponseTimeout (line 221)
TimedOut(current, start) == U32Gt(U32Sub(current, start), ResponseTimeout)

\* client.stop(): the connection is closed, what it received is dropped
ClientStop ==
    /\ sock' = "closed"
    /\ rx' = <<>>
    /\ peerPending' = <<>>
    /\ ops' = Append(ops, "stop")

\* lines 221-226
WaitTimeout ==
    /\ UNCHANGED <<elapsed, earlier>>
    /\ pc = "wait_time"
    /\ IF TimedOut(now, timeout)
       THEN /\ ClientStop
            /\ outcome' = "TimedOut"
            /\ pc' = "returned"
       ELSE /\ pc' = "wait_avail"
            /\ UNCHANGED <<client, peerPending, ops, outcome>>
    /\ UNCHANGED <<cfg, now, globals, locals, calls, wire, lengthField,
                   responses, waited, arrived, seen, received>>

\* as MoreToRead, with one byte left not being read
MoreToRead_MoreThanOne(buf) == Len(buf) > 1

\* client.available() as the condition of the while of line 230
MoreToRead(buf) == Len(buf) # 0

\* line 230: while (client.available())
ReadAvailable ==
    /\ UNCHANGED <<elapsed, earlier>>
    /\ pc = "read_avail"
    /\ pc' = IF MoreToRead(rx) THEN "read_until" ELSE "stop"
    /\ outcome' = IF MoreToRead(rx) THEN outcome ELSE "Acknowledged"
    /\ UNCHANGED <<env, globals, locals, client, calls,
                   ops, wire, lengthField, responses, waited, arrived, seen, received>>

\* lines 233-236: String response = client.readStringUntil('\r'); bytes that
\* arrive while the read is waiting for the terminator are read as well
ReadResponse ==
    /\ UNCHANGED <<elapsed, earlier>>
    /\ pc = "read_until"
    /\ \E n \in 0..Len(peerPending) :
        LET got == ReadStringUntil(rx \o SubSeq(peerPending, 1, n), CR, <<>>)
        IN  /\ responses' = Append(responses, got.text)
            /\ received' = IF responses = <<>>
                            THEN rx \o SubSeq(peerPending, 1, n) ELSE received
            /\ rx' = got.rest
            /\ peerPending' = SubSeq(peerPending, n + 1, Len(peerPending))
    /\ ops' = Append(ops, "read")
    /\ pc' = "read_avail"
    /\ UNCHANGED <<cfg, now, globals, locals, sock, calls, wire, lengthField,
                   outcome, waited, arrived, seen>>

\* line 243, reached from line 237 (the answer was read) and from the else
\* branch of lines 239-242 (no connection)
FinalStop ==
    /\ UNCHANGED <<elapsed, earlier>>
    /\ pc = "stop"
    /\ ClientStop
    /\ pc' = "returned"
    /\ UNCHANGED <<cfg, now, globals, locals, calls, wire, lengthField,
                   responses, outcome, waited, arrived, seen, received>>

Next ==
    \/ Tick
    \/ PeerSend
    \/ loop
    \/ LoopReturn
    \/ ReadAndBuild
    \/ Connect
    \/ NoConnection
    \/ SendHeader
    \/ EncodeLength
    \/ SendLength
    \/ SendPayload
    \/ StartWait
    \/ WaitAvailable
    \/ WaitTimeout
    \/ ReadAvailable
    \/ ReadResponse
    \/ FinalStop

Spec == Init /\ [][Next]_vars

\* An observer notes how a call returned, to compare a later call with it;
\* it changes nothing of the program.
Remember ==
    /\ pc = "returned"
    /\ CallerView \notin earlierViews
    /\ earlierViews' = {CallerView}
    /\ earlierAck' = (outcome = "Acknowledged")
    /\ UNCHANGED <<env, globals, locals, client, history, pc, calls, elapsed>>

\* the sketch as configured in the source, with the observer
InitSource == Init /\ cfg = SourceConfig

NextRecall == Next \/ Remember

RecallSpec == InitSource /\ [][NextRecall]_vars

\* the steps of the program (the sketch is the only thread of the board)
Program ==
    \/ loop
    \/ LoopReturn
    \/ ReadAndBuild
    \/ Connect
    \/ NoConnection
    \/ SendHeader
    \/ EncodeLength
    \/ SendLength
    \/ SendPayload
    \/ StartWait
    \/ WaitAvailable
    \/ WaitTimeout
    \/ ReadAvailable
    \/ ReadResponse
    \/ FinalStop

\* the program keeps running and the clock keeps advancing
FairSpec == Spec /\ WF_vars(Program) /\ WF_vars(Tick)

\* The sketch with the host name of 16316 characters, whose payload has 65535
\* or 65536 bytes according to the readings: every exit of zabbix_sender is
\* taken.
InitLongHost == Init /\ cfg.host = 16316

LongHostSpec == InitLongHost /\ [][Next]_vars /\ WF_vars(Program) /\ WF_vars(Tick)

\* millis() of a board that has been up for 2^32 - 75000 ms
LateStart == <<65534, 56072>>

\* The board at that time, in loop(), when every call so far has failed to
\* connect and the last one was made at this reading of millis(); `calls`
\* counts the calls from here on.
InitLate ==
    /\ cfg = SourceConfig
    /\ now = LateStart
    /\ pc = "loop"
    /\ previousMillis = LateStart
    /\ currentMillis = LateStart
    /\ timeout = U32Zero
    /\ firstLengthByte = 0
    /\ secondLengthByte = 0
    /\ \E r \in Batches :
        /\ Gybmep280 = r
        /\ msg = BuildMessage(cfg, r)
        /\ payloadLenght = PayloadLength(BuildMessage(cfg, r))
    /\ sock = "closed"
    /\ rx = <<>>
    /\ peerPending = <<>>
    /\ calls = 0
    /\ ops = <<>>
    /\ wire = <<>>
    /\ lengthField = <<>>
    /\ responses = <<>>
    /\ outcome = "none"
    /\ waited = -1
    /\ arrived = -1
    /\ seen = FALSE
    /\ received = <<>>
    /\ elapsed = 0
    /\ earlierViews = {}
    /\ earlierAck = FALSE

\* the sketch as configured in the source, from its start and from LateStart
InitUptime == InitSource \/ InitLate

UptimeSpec == InitUptime /\ [][Next]_vars /\ WF_vars(Program) /\ WF_vars(Tick)

(***************************************************************************)
(* Properties.                                                             *)
(***************************************************************************)
Returned == pc = "returned"

RECURSIVE Count(_, _)
Count(s, x) ==
    IF s = <<>> THEN 0 ELSE (IF Head(s) = x THEN 1 ELSE 0) + Count(Tail(s), x)

\* the payload Strings among what the current call wrote
PayloadWritten == SelectSeq(wire, LAMBDA r : r.name \in {"Header", "Part", "Footer"})

\* C1: a call whose payload has 65536 bytes or more returns as
\* OversizedPayload, has written nothing and has made no connection attempt.
C1_OversizedWritesNothing ==
    (Returned /\ payloadLenght >= 65536) =>
        /\ outcome = "OversizedPayload"
        /\ wire = <<>>
        /\ Count(ops, "connect") = 0 /\ Count(ops, "connect failed") = 0

\* C2: when a call returns, client.stop() has run exactly once in it,
\* whatever the exit.
C2_ClosedExactlyOnce ==
    Returned => Count(ops, "stop") = 1

\* C3: the length field written for a payload of L bytes, 0 <= L < 65536, has
\* eight bytes: L mod 256, L div 256, and six zeros; the first two decode to
\* L, and the second is 0 when L < 256.  It is written for every such L once
\* the preamble is out.
C3_LengthFieldLittleEndian ==
    LET L == SumLen(msg)
    IN  /\ (pc \in {"print1", "start_wait"} /\ L < 65536) => lengthField # <<>>
        /\ lengthField # <<>> =>
            /\ L >= 0 /\ L < 65536
            /\ Len(lengthField) = 8
            /\ lengthField[1] = L % 256
            /\ lengthField[2] = L \div 256
            /\ lengthField[1] + 256 * lengthField[2] = L
            /\ L < 256 => lengthField[2] = 0
            /\ \A i \in 3..8 : lengthField[i] = 0

C3_Witness ==
    /\ SumLen(msg) = 65535
    /\ lengthField = <<255, 255, 0, 0, 0, 0, 0, 0>>

IsPrefix(s, t) == Len(s) <= Len(t) /\ s = SubSeq(t, 1, Len(s))

\* the frame of section 6 of the specification for the message built:
\* 5 bytes of preamble, 8 bytes of length, the six payload Strings
ExpectedFrame ==
    <<[name |-> "txtHeader", item |-> "none", len |-> 5],
      [name |-> "length", item |-> "none", len |-> 8]>> \o msg

Waiting == pc \in {"wait_avail", "wait_time", "read_avail", "read_until"}

\* C4: what a call writes is, in this order and with nothing else between or
\* after, the 5-byte preamble Z,B,X,D,1, the 8-byte length field and the
\* payload; the first write follows a successful connect, the wait for the
\* answer begins when the whole frame is out, and the close comes last.
C4_FrameInOrder ==
    /\ msg # NoMessage => IsPrefix(wire, ExpectedFrame)
    /\ wire # <<>> => ops[1] = "connect"
    /\ ops # <<>> => ops[1] \in {"connect", "connect failed"}
    /\ Waiting => wire = ExpectedFrame
    /\ \A i \in 1..Len(ops) : ops[i] = "stop" => i = Len(ops)

\* runs of bytes, each with the offset of its first byte in its String
AsSlices(w) ==
    [i \in 1..Len(w) |-> [name |-> w[i].name, item |-> w[i].item, from |-> 1, len |-> w[i].len]]

\* the slices that remain after the first k bytes
RECURSIVE Drop(_, _)
Drop(sl, k) ==
    IF k = 0 \/ sl = <<>> THEN sl
    ELSE IF Head(sl).len <= k THEN Drop(Tail(sl), k - Head(sl).len)
    ELSE <<[Head(sl) EXCEPT !.from = @ + k, !.len = @ - k]>> \o Tail(sl)

\* the first n bytes
RECURSIVE Take(_, _)
Take(sl, n) ==
    IF n = 0 \/ sl = <<>> THEN <<>>
    ELSE IF Head(sl).len <= n THEN <<Head(sl)>> \o Take(Tail(sl), n - Head(sl).len)
    ELSE <<[Head(sl) EXCEPT !.len = n]>>

\* the number a little-endian length field declares
RECURSIVE DecodeLength(_)
DecodeLength(f) == IF f = <<>> THEN 0 ELSE Head(f) + 256 * DecodeLength(Tail(f))

\* the payload a receiver reads: the bytes from offset 13 on, as many as the
\* length field declares
PayloadRead == Take(Drop(AsSlices(wire), 13), DecodeLength(lengthField))

\* C5: once the payload is out, the length field declares exactly the number
\* of payload bytes written after it, and the declared number of bytes read
\* from offset 13 of what was written is the JSON text that was built.
C5_FrameRoundTrip ==
    (pc = "start_wait" \/ Waiting) =>
        /\ DecodeLength(lengthField) = SumLen(PayloadWritten)
        /\ PayloadWritten = msg
        /\ PayloadRead = AsSlices(msg)

\* C6 (safety part): a call returns as TimedOut only when more than
\* ResponseTimeout milliseconds have passed since the wait began, and then
\* the connection is closed; a call that waited and received no byte
\* returns as TimedOut.
C6_TimedOutAfterTimeout ==
    /\ outcome = "TimedOut" => (Returned /\ waited > ResponseTimeout /\ sock = "closed")
    /\ (Returned /\ waited >= 0 /\ arrived = -1) => outcome = "TimedOut"

SilentWait == pc = "wait_avail" /\ rx = <<>> /\ peerPending = <<>>

\* C6: if the peer never sends a byte after the frame is written, the call
\* reaches TimedOut, not before ResponseTimeout has elapsed since the wait
\* began, and the socket is closed when it returns.
C6_SilentPeerTimesOut ==
    /\ []C6_TimedOutAfterTimeout
    /\ SilentWait ~> (Returned /\ outcome = "TimedOut")

C6_Witness ==
    /\ Returned /\ outcome = "TimedOut" /\ arrived = -1
    /\ waited > ResponseTimeout /\ sock = "closed"

\* the bytes of b before its first terminator, all of b if it has none
UpToFirst(b, terminator) ==
    IF \E i \in 1..Len(b) : b[i] = terminator
    THEN LET first == CHOOSE i \in 1..Len(b) :
                        b[i] = terminator /\ \A j \in 1..(i - 1) : b[j] # terminator
         IN  SubSeq(b, 1, first - 1)
    ELSE b

\* C7 as claimed: if the first byte of the answer arrives before
\* ResponseTimeout has elapsed since the wait began, the call returns as
\* Acknowledged, and the text it captured is what it received up to, and
\* without, the first carriage return.
C7_AcknowledgedIfInTime ==
    (Returned /\ arrived >= 0 /\ arrived < ResponseTimeout) =>
        /\ outcome = "Acknowledged"
        /\ responses # <<>>
        /\ responses[1] = UpToFirst(received, CR)

\* C7 as amended: if a byte is available when the wait loop tests
\* client.available() (line 219), the call returns as Acknowledged whatever
\* the bytes are, and the text captured by the first read is what that read
\* received up to, and without, the first carriage return: "OK" for "OK\r".
C7_AcknowledgedIfSeen ==
    /\ seen => pc \in {"read_avail", "read_until", "stop", "returned"}
    /\ (Returned /\ seen) => (outcome = "Acknowledged" /\ responses # <<>>)
    /\ responses # <<>> => (seen /\ responses[1] = UpToFirst(received, CR))
    /\ (Returned /\ received = <<79, 75, CR>>) => responses = << <<79, 75>> >>

C7_Witness ==
    /\ Returned /\ seen /\ outcome = "Acknowledged"
    /\ received = <<79, 75, CR>>
    /\ responses = << <<79, 75>> >>

\* C8: a call makes at most one connect attempt; when the attempt fails the
\* call writes no byte and reads no byte and returns as ConnectionFailed.
C8_FailedConnectDoesNothing ==
    /\ Count(ops, "connect") + Count(ops, "connect failed") <= 1
    /\ Returned => Count(ops, "connect") + Count(ops, "connect failed") = 1
    /\ Count(ops, "connect failed") > 0 =>
        /\ wire = <<>>
        /\ responses = <<>>
        /\ Count(ops, "read") = 0
        /\ Returned => outcome = "ConnectionFailed"
    /\ outcome = "ConnectionFailed" => Count(ops, "connect failed") = 1

C8_Witness ==
    /\ Returned /\ outcome = "ConnectionFailed"
    /\ ops = <<"connect failed", "stop">>
    /\ wire = <<>>

\* the items of the "data" array, in the order of the JSON text
JsonItems == [i \in 1..4 |-> msg[i + 1].item]

\* C9: the items of the JSON data array are in the order in which the
\* readings were captured.
C9_OrderPreserved ==
    msg # NoMessage => JsonItems = CaptureOrder

\* the readings that have an item among what the current call wrote
ItemsWritten == {wire[i].item : i \in {j \in 1..Len(wire) : wire[j].name = "Part"}}

C11_FailureReported ==
    (Returned /\ CallerView \in earlierViews) =>
        ((outcome = "Acknowledged") = earlierAck)

\* zabbix_sender() has been called and has not returned
InCall == pc \notin {"loop", "returned"}

\* C12: every call of zabbix_sender returns, whatever the peer sends of its
\* finitely many bytes and whenever it sends them; the call that returns has
\* taken one of the four exits and only that one; zabbix_sender is only
\* called from loop(), after the call before has returned.
C12_SendTerminates ==
    /\ [](Returned => outcome \in Outcomes)
    /\ [][(outcome # "none" /\ outcome' # "none") => outcome' = outcome]_vars
    /\ [][(pc' = "build" /\ pc # "build") => (pc = "loop" /\ outcome = "none")]_vars
    /\ (InCall ~> Returned)

\* the second call returns after reading an answer of several segments
C12_Witness ==
    Returned /\ calls = 2 /\ outcome = "Acknowledged" /\ Len(responses) = 2

\* C13: a call keeps nothing of the calls before it: when loop() calls
\* zabbix_sender the client of every earlier call is closed and holds no
\* byte, and the length field and the payload a call writes are those of the
\* message built from the readings of that call.
C13_NothingRetained ==
    LET own == BuildMessage(cfg, Gybmep280)
    IN  /\ pc = "build" => (sock = "closed" /\ rx = <<>>)
        /\ wire # <<>> => IsPrefix(PayloadWritten, own)
        /\ lengthField # <<>> =>
            lengthField = <<SumLen(own) % 256, (SumLen(own) \div 256) % 256,
                            0, 0, 0, 0, 0, 0>>

\* the bytes of b after its first terminator, none if it has no terminator
AfterFirst(b, terminator) ==
    SubSeq(b, Len(UpToFirst(b, terminator)) + 2, Len(b))

\* C14 as claimed: a call that returns as Acknowledged has made exactly one
\* read (one readStringUntil) and has captured one text, however many bytes
\* or segments ended by a carriage return the peer sent.
C14_SingleRead ==
    (Returned /\ outcome = "Acknowledged") =>
        (Count(ops, "read") = 1 /\ Len(responses) = 1)

\* C14 as amended: a call that returns as Acknowledged has made at least one
\* read and has captured one text per read; one read and one text when the
\* first read received "OK\r", the whole answer; two or more when bytes
\* follow the first carriage return of what the first read received.
C14_OneReadPerPass ==
    (Returned /\ outcome = "Acknowledged") =>
        /\ Count(ops, "read") >= 1
        /\ Len(responses) = Count(ops, "read")
        /\ received = <<79, 75, CR>> => Len(responses) = 1
        /\ AfterFirst(received, CR) # <<>> => Len(responses) >= 2

C14_Witness ==
    /\ Returned /\ outcome = "Acknowledged"
    /\ received = <<79, CR, 75>>
    /\ responses = <<(<<79>>), (<<75>>)>>

\* C15: loop() calls zabbix_sender at most once per interval: at each call
\* more than `interval` milliseconds have passed since the call before, or
\* since the start for the first call, and the reading of millis() that
\* triggers it differs from the reading kept of the call before by more than
\* `interval`, modulo 2^32; this also when millis() wraps between the two.
C15_OncePerInterval ==
    [][(pc = "loop" /\ pc' = "build") =>
        /\ elapsed > interval
        /\ currentMillis' = now
        /\ previousMillis' = currentMillis'
        /\ LET d == U32Sub(currentMillis', previousMillis)
           IN  /\ d[1] * Limb + d[2] = elapsed
               /\ d[1] * Limb + d[2] > interval]_vars

\* a call triggered after millis() wrapped: 120000 ms after LateStart
C15_Witness ==
    /\ pc = "build"
    /\ elapsed = 0
    /\ previousMillis = <<0, 45000>>

\* C16: in the wait for the answer the test of client.available() comes
\* before the test of the time: a pass that finds a byte available goes on to
\* read, however long the wait has lasted, and the call does not return as
\* TimedOut; the call returns as TimedOut only from a pass that found no byte
\* available and then found that more than ResponseTimeout milliseconds had
\* passed.
C16_AvailabilityFirst ==
    /\ [][(pc = "wait_avail" /\ pc' # "wait_avail") =>
            IF Len(rx) # 0
            THEN pc' = "read_avail" /\ outcome' # "TimedOut"
            ELSE pc' = "wait_time" /\ outcome' # "TimedOut"]_vars
    /\ [][(pc = "read_avail" /\ pc' # "read_avail" /\ responses = <<>>) =>
            pc' = "read_until"]_vars
    /\ [][(outcome' = "TimedOut" /\ outcome # "TimedOut") =>
            (pc = "wait_time" /\ ~seen /\ waited > ResponseTimeout)]_vars
    /\ [](seen => outcome # "TimedOut")
    /\ [](outcome = "TimedOut" => (waited > ResponseTimeout /\ responses = <<>>))

\* an answer that arrived after the timeout had elapsed is read
C16_Witness ==
    /\ Returned /\ outcome = "Acknowledged"
    /\ arrived > ResponseTimeout
    /\ seen /\ responses # <<>>

\* C17: the wait for the answer is decided by the milliseconds that passed
\* since line 217, also when millis() wraps during the wait: the difference
\* millis() - timeout, modulo 2^32, is the time waited; a test of line 221
\* ends the call as TimedOut when more than ResponseTimeout milliseconds have
\* passed and not before; a call whose peer stays silent returns as TimedOut.
C17_WaitBoundedAcrossWrap ==
    /\ [](pc \in {"wait_avail", "wait_time"} =>
            LET d == U32Sub(now, timeout) IN d[1] * Limb + d[2] = waited)
    /\ [][(pc = "wait_time" /\ pc' # "wait_time") =>
            ((outcome' = "TimedOut") = (waited > ResponseTimeout))]_vars
    /\ [](outcome = "TimedOut" => waited > ResponseTimeout)
    /\ SilentWait ~> (Returned /\ outcome = "TimedOut" /\ waited > ResponseTimeout)

\* a silent peer with the wait begun 5000 ms before millis() wraps: the call
\* returns as TimedOut 20000 ms later, with millis() below `timeout`
C17_Witness ==
    /\ Returned /\ outcome = "TimedOut" /\ arrived = -1
    /\ timeout = U32Add(LateStart, 70000)
    /\ now = <<0, 15000>>
    /\ waited = 20000

====
